---- MODULE Spec2Model ----
(***************************************************************************)
(* The chat hub of src/be/index.ts: the Bun.serve websocket handlers       *)
(* (open, message, close) over the single topic "main-chat", the upgrade   *)
(* performed by fetch on /chat, and the frames each connection is handed.  *)
(*                                                                         *)
(* The source keeps no registry or queue of its own: membership is the     *)
(* runtime's subscriber set of the topic (ws.subscribe / ws.unsubscribe),  *)
(* and a connection's outbound stream is the sequence of frames given to   *)
(* it by server.publish and ws.send.  server.publish delivers to every     *)
(* subscriber of the topic, the publishing connection included.            *)
(*                                                                         *)
(* wire[c] counts the frames of c's outbound stream that the runtime has   *)
(* written to c's network connection; the handlers never wait for it.      *)
(*                                                                         *)
(* log is a history variable: one entry per publish or send, in the order  *)
(* the calls were made.  A frame's id is the index of its log entry; it is *)
(* not on the wire and only tells two equal frames apart.                  *)
(***************************************************************************)
EXTENDS Integers, Sequences, FiniteSets, Bags, TLC

VARIABLES status, data, subs, out, log, now, wire

\* The request endpoints: the last request handled, its response, the
\* backend it invoked, and how often each backend has been invoked.
VARIABLES request, response, invoked, calls, inflight

\* The client side: a call of retryApiCall, a WebSocketMock and the chat
\* store with its sessionStorage entry.
VARIABLES retry, mock, store

hubVars == <<status, data, subs, out, log, now, wire>>
apiVars == <<request, response, invoked, calls, inflight>>
feVars == <<retry, mock, store>>
vars == <<status, data, subs, out, log, now, wire, request, response, invoked, calls, inflight,
          retry, mock, store>>

\* ---------------------------------------------------------------- bounds
\* Connections accepted in one run, and publishes and sends made in it.
MaxConns == 3
MaxLog == 6
\* Requests to /api/chat and /api/transcribe handled in one run.
MaxRequests == 3
\* Values Date.now() takes in one run.
Clock == {0, 1}

Conns == 1..MaxConns

\* ------------------------------------------------------------- constants
System == "System"
\* A field that is absent (undefined in the source, omitted by JSON.stringify).
Undefined == "<undefined>"
\* A timestamp field that is absent.
NoTimestamp == -1
\* A query parameter or header that is absent (null in the source).
Null == "<null>"

\* Upgrade requests on /chat: the username query parameter and the
\* x-username header, each present or not.
Requests == [query : {Null, "Alice"}, header : {Null, "User7"}]
\* Values Math.floor(Math.random() * 1000) takes in the runs explored.
RandomInts == {7}

\* Inbound frames as the client wrote them.
RawFrames ==
    { "not-json",
      "null",
      "{\"type\":\"chat\",\"content\":\"hi\"}",
      "{\"type\":\"chat\",\"content\":\"hi\",\"username\":\"Mallory\"}",
      "{\"type\":\"chat\",\"content\":\"hi\",\"timestamp\":99}",
      "{\"type\":\"join\",\"content\":\"hi\"}" }

\* ------------------------------------------------------- pure functions

\* JSON.parse(message.toString()): throws on text that is not JSON (ok is
\* FALSE); otherwise the value: an object with the fields present, or null.
NoValue(ok, kind) ==
    [ok |-> ok, kind |-> kind, type |-> Undefined, content |-> Undefined,
     username |-> Undefined, timestamp |-> NoTimestamp]
Obj(t, c, u, ts) ==
    [ok |-> TRUE, kind |-> "object", type |-> t, content |-> c, username |-> u,
     timestamp |-> ts]
JSONParse(raw) ==
    CASE raw = "null" -> NoValue(TRUE, "null")
      [] raw = "{\"type\":\"chat\",\"content\":\"hi\"}" ->
            Obj("chat", "hi", Undefined, NoTimestamp)
      [] raw = "{\"type\":\"chat\",\"content\":\"hi\",\"username\":\"Mallory\"}" ->
            Obj("chat", "hi", "Mallory", NoTimestamp)
      [] raw = "{\"type\":\"chat\",\"content\":\"hi\",\"timestamp\":99}" ->
            Obj("chat", "hi", Undefined, 99)
      [] raw = "{\"type\":\"join\",\"content\":\"hi\"}" ->
            Obj("join", "hi", Undefined, NoTimestamp)
      [] OTHER -> NoValue(FALSE, "error")

\* The try block of the message handler completes: the text parses and
\* data.content can be read (reading a property of null throws).
TryOk(raw) == JSONParse(raw).ok /\ JSONParse(raw).kind # "null"

\* extractUsername: query parameter ?? header ?? `User${random}`.
extractUsername(req, rnd) ==
    IF req.query # Null THEN req.query
    ELSE IF req.header # Null THEN req.header
    ELSE "User" \o ToString(rnd)

\* A WebSocketMessage as the handlers build it.
WebSocketMessage(t, c, u, ts) ==
    [type |-> t, content |-> c, username |-> u, timestamp |-> ts]

joinMessage(u, ts) == WebSocketMessage("join", u \o " joined the chat", u, ts)
welcomeMessage(u, ts) ==
    WebSocketMessage("chat", "Welcome to the chat, " \o u \o "!", System, ts)
leaveMessage(u, ts) == WebSocketMessage("leave", u \o " left the chat", u, ts)
errorMessage(ts) ==
    WebSocketMessage("chat", "Error: Invalid message format", System, ts)
\* Mutant: the client's username is used when the frame carries one.
chatMessageClientName(ws, parsed, ts) ==
    WebSocketMessage("chat", parsed.content,
                     IF parsed.username # Undefined THEN parsed.username
                     ELSE ws.data.username, ts)
\* Mutant: the client's timestamp is kept when the frame carries one.
chatMessageClientTime(ws, parsed, ts) ==
    WebSocketMessage("chat", parsed.content, ws.data.username,
                     IF parsed.timestamp # NoTimestamp THEN parsed.timestamp ELSE ts)
chatMessage(ws, parsed, ts) ==
    WebSocketMessage("chat", parsed.content, ws.data.username, ts)

\* The frame on the wire: the message with the index of its log entry.
Frame(id, m) ==
    [id |-> id, type |-> m.type, content |-> m.content,
     username |-> m.username, timestamp |-> m.timestamp]

\* ------------------------------------------------- the hub's operations
\* h is the hub: [subs, out, log], with the value the handler's last
\* Date.now() returned (clock).

Hub == [subs |-> subs, out |-> out, log |-> log, clock |-> now]

\* Date.now() returns t: the wall clock, which may have moved either way
\* since the read before.
DateNow(h, t) == [h EXCEPT !.clock = t]

\* at is the value of the handler's last Date.now() when the call was made.
Entry(op, by, raw, kind, f, to, at) ==
    [op |-> op, by |-> by, raw |-> raw, kind |-> kind, frame |-> f, to |-> to,
     at |-> at]

\* ws.subscribe("main-chat") / ws.unsubscribe("main-chat")
subscribe(h, c) == [h EXCEPT !.subs = @ \cup {c}]
\* Mutant: the unsubscribe is lost.
unsubscribeNothing(h, c) == h
unsubscribe(h, c) == [h EXCEPT !.subs = @ \ {c}]

\* Mutant: the publish skips the publishing connection (ws.publish).
RecipientsExceptSender(h, by) == h.subs \ {by}
\* Mutant: the publish goes through the subscribers in order and stops at
\* the first one whose earlier frames are not yet written.
RecipientsUntilStalled(h, by) ==
    {d \in h.subs : \A e \in h.subs : e < d => wire[e] = Len(h.out[e])}
\* The connections server.publish("main-chat", ...) hands the frame to.
Recipients(h, by) == h.subs

\* Mutant: the frame is put at the head of each recipient's stream.
publishAtHead(h, c, op, raw, m) ==
    LET f == Frame(Len(h.log) + 1, m)
        to == Recipients(h, c)
    IN [h EXCEPT !.out = [d \in Conns |-> IF d \in to THEN <<f>> \o h.out[d]
                                          ELSE h.out[d]],
                 !.log = Append(@, Entry(op, c, raw, "publish", f, to, h.clock))]
\* server.publish("main-chat", JSON.stringify(m)) made by c's handler op.
publish(h, c, op, raw, m) ==
    LET f == Frame(Len(h.log) + 1, m)
        to == Recipients(h, c)
    IN [h EXCEPT !.out = [d \in Conns |-> IF d \in to THEN Append(h.out[d], f)
                                          ELSE h.out[d]],
                 !.log = Append(@, Entry(op, c, raw, "publish", f, to, h.clock))]

\* ws.send(JSON.stringify(m)) on c's own socket.
send(h, c, op, raw, m) ==
    LET f == Frame(Len(h.log) + 1, m)
    IN [h EXCEPT !.out[c] = Append(@, f),
                 !.log = Append(@, Entry(op, c, raw, "send", f, {c}, h.clock))]

\* Mutant: the welcome is sent before the join is published.
openHandlerWelcomeFirst(h, ws, ts, ts2) ==
    LET h1 == subscribe(h, ws.id)
        h2 == send(DateNow(h1, ts2), ws.id, "open", "",
                   welcomeMessage(ws.data.username, ts2))
    IN publish(DateNow(h2, ts), ws.id, "open", "", joinMessage(ws.data.username, ts))
\* Mutant: the connection is subscribed after its join is published.
openHandlerSubscribeLast(h, ws, ts, ts2) ==
    LET h1 == publish(DateNow(h, ts), ws.id, "open", "",
                      joinMessage(ws.data.username, ts))
        h2 == subscribe(h1, ws.id)
    IN send(DateNow(h2, ts2), ws.id, "open", "", welcomeMessage(ws.data.username, ts2))
\* websocket.open: Date.now() is read for the join message (ts) and, after
\* the publish, again for the welcome message (ts2).
openHandler(h, ws, ts, ts2) ==
    LET h1 == subscribe(h, ws.id)
        h2 == publish(DateNow(h1, ts), ws.id, "open", "",
                      joinMessage(ws.data.username, ts))
    IN send(DateNow(h2, ts2), ws.id, "open", "", welcomeMessage(ws.data.username, ts2))

\* Mutant: the chat message goes back to the sender only.
messageHandlerSendOnly(h, ws, raw, ts) ==
    IF TryOk(raw)
    THEN send(DateNow(h, ts), ws.id, "message", raw, chatMessage(ws, JSONParse(raw), ts))
    ELSE send(DateNow(h, ts), ws.id, "message", raw, errorMessage(ts))
\* Mutant: the error message is published to the topic.
messageHandlerBroadcastError(h, ws, raw, ts) ==
    IF TryOk(raw)
    THEN publish(DateNow(h, ts), ws.id, "message", raw, chatMessage(ws, JSONParse(raw), ts))
    ELSE publish(DateNow(h, ts), ws.id, "message", raw, errorMessage(ts))
\* websocket.message
messageHandler(h, ws, raw, ts) ==
    IF TryOk(raw)
    THEN publish(DateNow(h, ts), ws.id, "message", raw, chatMessage(ws, JSONParse(raw), ts))
    ELSE send(DateNow(h, ts), ws.id, "message", raw, errorMessage(ts))

\* Mutant: the close handler unsubscribes and announces nothing.
closeHandlerNoLeave(h, ws, ts) == unsubscribe(h, ws.id)
\* Mutant: the leave is published before the connection is unsubscribed.
closeHandlerPublishFirst(h, ws, ts) ==
    unsubscribe(publish(DateNow(h, ts), ws.id, "close", "", leaveMessage(ws.data.username, ts)),
                ws.id)
\* websocket.close
closeHandler(h, ws, ts) ==
    LET h1 == unsubscribe(h, ws.id)
    IN publish(DateNow(h1, ts), ws.id, "close", "", leaveMessage(ws.data.username, ts))

\* ------------------------------------------------- request endpoints

\* A JSON object as its set of <<key, value>> pairs, values as they are
\* written in the JSON text.  JSON.stringify leaves out undefined values.
JSONStringify(pairs) == {p \in pairs : p[2] # Undefined}
Get(body, key) ==
    IF \E p \in body : p[1] = key THEN (CHOOSE p \in body : p[1] = key)[2]
    ELSE Undefined

\* getCORSHeaders
getCORSHeaders ==
    { <<"Access-Control-Allow-Origin", "*">>,
      <<"Access-Control-Allow-Methods", "GET, POST, PUT, DELETE, OPTIONS">>,
      <<"Access-Control-Allow-Headers", "Content-Type, Authorization">>,
      <<"Access-Control-Max-Age", "86400">> }

\* new Response(JSON.stringify(body), {status, headers: {Content-Type, CORS}})
\* text is the body of a response that is not JSON.
JSONResponse(st, body) ==
    [status |-> st, body |-> JSONStringify(body), text |-> Undefined,
     headers |-> {<<"Content-Type", "application/json">>} \cup getCORSHeaders]

\* new Response(text, {status, headers}) with a string body: the
\* constructor adds the Content-Type of a string.
TextResponse(st, text, headers) ==
    [status |-> st, body |-> {}, text |-> text,
     headers |-> headers \cup {<<"Content-Type", "text/plain;charset=UTF-8">>}]

\* new Response(null, {status, headers}): no body and no Content-Type.
NullResponse(st, headers) ==
    [status |-> st, body |-> {}, text |-> Null, headers |-> headers]

\* No Response object: before any request, and what fetch returns
\* (undefined) when server.upgrade has taken the request over.
NoResponse == [status |-> 0, body |-> {}, text |-> Undefined, headers |-> {}]

\* Bodies posted to /api/chat, as the client wrote them.
ChatBodies ==
    { "not-json",
      "null",
      "{}",
      "{\"messages\":\"hello\"}",
      "{\"messages\":null}",
      "{\"messages\":[]}",
      "{\"messages\":[{\"text\":\"hello\",\"role\":\"user\"}]}",
      "{\"messages\":[{\"text\":\"a\",\"role\":\"user\"},{\"text\":\"b\",\"role\":\"assistant\"}],\"model\":\"gpt-4o\",\"webSearch\":false}" }

\* A value of the messages field: its JavaScript type, and the number of
\* elements of an array.
Value(tag, n) == [tag |-> tag, len |-> n]
\* req.json(): throws on a body that is not JSON (ok is FALSE); otherwise
\* the value, null or an object with its messages field.
ChatBody(ok, kind, messages) == [ok |-> ok, kind |-> kind, messages |-> messages]
ParseChatBody(raw) ==
    CASE raw = "null" -> ChatBody(TRUE, "null", Value("undefined", 0))
      [] raw = "{}" -> ChatBody(TRUE, "object", Value("undefined", 0))
      [] raw = "{\"messages\":\"hello\"}" -> ChatBody(TRUE, "object", Value("string", 5))
      [] raw = "{\"messages\":null}" -> ChatBody(TRUE, "object", Value("null", 0))
      [] raw = "{\"messages\":[]}" -> ChatBody(TRUE, "object", Value("array", 0))
      [] raw = "{\"messages\":[{\"text\":\"hello\",\"role\":\"user\"}]}" ->
            ChatBody(TRUE, "object", Value("array", 1))
      [] raw = "{\"messages\":[{\"text\":\"a\",\"role\":\"user\"},{\"text\":\"b\",\"role\":\"assistant\"}],\"model\":\"gpt-4o\",\"webSearch\":false}" ->
            ChatBody(TRUE, "object", Value("array", 2))
      [] OTHER -> ChatBody(FALSE, "error", Value("undefined", 0))

\* !v is false (v is truthy): undefined, null and "" are falsy, every array
\* is truthy, the empty one too.
Truthy(v) ==
    CASE v.tag = "array" -> TRUE
      [] v.tag = "string" -> v.len > 0
      [] OTHER -> FALSE
\* Array.isArray(v)
IsArray(v) == v.tag = "array"

\* Values of Math.random(), in thousandths.
Randoms == {0, 199, 200, 500, 999}

\* The canned responses of generateAIResponse.
AIResponses ==
    << "That's a really interesting point! Let me think about that for a moment...",
       "I understand what you're asking. Here's my perspective on that:",
       "Great question! Based on what you've shared, I think...",
       "That reminds me of something important we should consider:",
       "Let me help you with that! Here's what I would suggest:" >>

\* responses[i]: undefined outside the array.
At(arr, i) == IF i + 1 \in 1..Len(arr) THEN arr[i + 1] ELSE Undefined

\* Mutant: the index is rounded, not floored.
generateAIResponseRound(messages, rnd) ==
    { <<"role", "assistant">>,
      <<"content", At(AIResponses, (rnd * Len(AIResponses) + 500) \div 1000)>> }
\* generateAIResponse: responses[Math.floor(Math.random() * responses.length)]
generateAIResponse(messages, rnd) ==
    { <<"role", "assistant">>,
      <<"content", At(AIResponses, (rnd * Len(AIResponses)) \div 1000)>> }

\* The outcome of a handler: its response and the backend it invoked.
Outcome(resp, backend) == [response |-> resp, invoked |-> backend]

InternalServerError == JSONResponse(500, {<<"error", "Internal server error">>})

\* Mutant: no catch; the runtime answers an escaped exception itself.
handleChatRequestNoCatch(raw, rnd) ==
    LET body == ParseChatBody(raw)
    IN IF ~body.ok \/ body.kind = "null"
       THEN Outcome(TextResponse(500, "", {}), "none")
       ELSE IF ~Truthy(body.messages) \/ ~IsArray(body.messages)
       THEN Outcome(JSONResponse(400, {<<"error", "Messages array is required">>}),
                    "none")
       ELSE Outcome(JSONResponse(200, generateAIResponse(body.messages, rnd)),
                    "generateAIResponse")
\* handleChatRequest: req.json() or body.messages of null throws into the
\* catch (500); a falsy or non-array messages is 400; everything else is
\* answered by generateAIResponse.
handleChatRequest(raw, rnd) ==
    LET body == ParseChatBody(raw)
    IN IF ~body.ok \/ body.kind = "null"
       THEN Outcome(InternalServerError, "none")
       ELSE IF ~Truthy(body.messages) \/ ~IsArray(body.messages)
       THEN Outcome(JSONResponse(400, {<<"error", "Messages array is required">>}),
                    "none")
       ELSE Outcome(JSONResponse(200, generateAIResponse(body.messages, rnd)),
                    "generateAIResponse")

\* The audio file of a transcribe request: none, or its size and MIME type.
NoFile == [present |-> FALSE, size |-> 0, type |-> Undefined]
File(size, type) == [present |-> TRUE, size |-> size, type |-> type]
\* validateAudioFile's limits.
maxSize == 5 * 1024 * 1024
allowedTypes == {"audio/webm", "audio/mp4", "audio/wav", "audio/mpeg"}
AudioFiles ==
    {NoFile} \cup {File(sz, ty) : sz \in {1, maxSize, maxSize + 1},
                                  ty \in {"audio/webm", "audio/mpeg", "audio/ogg"}}

\* validateAudioFile
validateAudioFile(file) ==
    IF file.size > maxSize
    THEN [valid |-> FALSE, error |-> "File size exceeds 5MB limit"]
    ELSE IF file.type \notin allowedTypes
    THEN [valid |-> FALSE,
          error |-> "Unsupported audio format. Allowed: audio/webm, audio/mp4, audio/wav, audio/mpeg"]
    ELSE [valid |-> TRUE, error |-> Undefined]

\* The canned transcriptions of transcribeAudio.
mockTranscriptions ==
    << "Hello, this is a test transcription of the audio file.",
       "Can you hear me clearly? I'm testing the audio transcription feature.",
       "This is another example of what a transcribed audio message might look like.",
       "The weather is really nice today, don't you think?",
       "I'm excited to try out this new chat application with voice features." >>

\* transcribeAudio: resolves with one of the canned transcriptions; the
\* mock never rejects (ok).
transcribeAudio(file, rnd) ==
    [ok |-> TRUE, text |-> At(mockTranscriptions, (rnd * Len(mockTranscriptions)) \div 1000)]

\* The body of handleTranscribeRequest's try block from line 118 on, given
\* whether the identifier audioFile resolves (to the request's file) and
\* whether the awaited backend call fails (a stub in place of the mock,
\* which never rejects).
\* validateAudioFile is not called on this path.
transcribeBody(resolves, file, fails, rnd) ==
    IF ~resolves
    THEN Outcome(JSONResponse(500, {<<"error", "Internal server error">>,
                                    <<"success", "false">>}), "none")
    ELSE IF ~file.present
    THEN Outcome(JSONResponse(400, {<<"error", "No audio file provided">>,
                                    <<"success", "false">>}), "none")
    ELSE IF ~fails /\ transcribeAudio(file, rnd).ok
    THEN Outcome(JSONResponse(200, {<<"transcription", transcribeAudio(file, rnd).text>>,
                                    <<"success", "true">>}), "transcribeAudio")
    ELSE Outcome(JSONResponse(503, {<<"error", "Service temporarily unavailable">>,
                                    <<"success", "false">>}), "transcribeAudio")

\* Mutant: audioFile is declared and holds the request's file.
handleTranscribeRequestDeclared(file, fails, rnd) == transcribeBody(TRUE, file, fails, rnd)
\* handleTranscribeRequest: audioFile is declared nowhere, so reading it at
\* line 118 throws a ReferenceError into the outer catch.
handleTranscribeRequest(file, fails, rnd) == transcribeBody(FALSE, file, fails, rnd)

\* A request: method, path, JSON body, audio file, whether it carries a
\* WebSocket handshake, and whether the backend fails while it is served.
Req(method, path, body, file, handshake, fails) ==
    [method |-> method, path |-> path, body |-> body, file |-> file,
     handshake |-> handshake, fails |-> fails]
NoRequest == Req("", "", "", NoFile, FALSE, FALSE)

Methods == {"GET", "POST", "OPTIONS"}
Paths == {"/chat", "/api/chat", "/api/transcribe", "/health", "/"}

\* handleOptionsRequest
handleOptionsRequest == NullResponse(200, getCORSHeaders)

\* new Date(t).toISOString(), for the first milliseconds of the epoch.
toISOString(t) == "1970-01-01T00:00:00.00" \o ToString(t) \o "Z"

\* Mutant: a handler drops the topic's subscribers.
handlerEffectUnsubscribeAll(h) == [h EXCEPT !.subs = {}]
\* What the request handlers do to the hub: they call neither
\* server.publish nor subscribe, unsubscribe or send.
handlerEffect(h) == h

\* The branch fetch takes, with its outcome.
Routed(route, o) == [route |-> route, response |-> o.response, invoked |-> o.invoked]

\* Mutant: the /chat branch comes before the OPTIONS branch.
fetchUpgradeFirst(req, rnd, t) ==
    IF req.path = "/chat"
    THEN Routed("upgrade",
                Outcome(IF req.handshake THEN NoResponse
                        ELSE TextResponse(400, "WebSocket upgrade failed", {}),
                        "none"))
    ELSE IF req.method = "OPTIONS"
    THEN Routed("preflight", Outcome(handleOptionsRequest, "none"))
    ELSE IF req.path = "/api/chat" /\ req.method = "POST"
    THEN Routed("chat", handleChatRequest(req.body, rnd))
    ELSE IF req.path = "/api/transcribe" /\ req.method = "POST"
    THEN Routed("transcribe", handleTranscribeRequest(req.file, req.fails, rnd))
    ELSE IF req.path = "/health"
    THEN Routed("health",
                Outcome(JSONResponse(200, {<<"status", "healthy">>,
                                           <<"timestamp", toISOString(t)>>}),
                        "none"))
    ELSE Routed("notFound", Outcome(TextResponse(404, "Not Found", getCORSHeaders), "none"))
\* fetch, at time t.  On /chat a request with a handshake is taken over by
\* server.upgrade and fetch returns undefined.
fetch(req, rnd, t) ==
    IF req.method = "OPTIONS"
    THEN Routed("preflight", Outcome(handleOptionsRequest, "none"))
    ELSE IF req.path = "/chat"
    THEN Routed("upgrade",
                Outcome(IF req.handshake THEN NoResponse
                        ELSE TextResponse(400, "WebSocket upgrade failed", {}),
                        "none"))
    ELSE IF req.path = "/api/chat" /\ req.method = "POST"
    THEN Routed("chat", handleChatRequest(req.body, rnd))
    ELSE IF req.path = "/api/transcribe" /\ req.method = "POST"
    THEN Routed("transcribe", handleTranscribeRequest(req.file, req.fails, rnd))
    ELSE IF req.path = "/health"
    THEN Routed("health",
                Outcome(JSONResponse(200, {<<"status", "healthy">>,
                                           <<"timestamp", toISOString(t)>>}),
                        "none"))
    ELSE Routed("notFound", Outcome(TextResponse(404, "Not Found", getCORSHeaders), "none"))

\* -------------------------------------------------------- WebSocketMock

\* Bot replies that may be pending at once.
MaxReplies == 3

\* A WebSocketMock: its isConnected field, its pending timers (the 500 ms
\* connect timer, the 3 s reconnectTimeout, the 1-3 s reply timers), the
\* last callback it invoked, whether disconnect() has been called, and
\* whether onConnect or onMessage has been invoked since.
Mock(c, ct, rt, rp, last, d, ca, ra) ==
    [isConnected |-> c, connectTimer |-> ct, reconnectTimeout |-> rt,
     replyTimers |-> rp, last |-> last, disconnected |-> d,
     connectedAfter |-> ca, repliedAfter |-> ra]

\* connect(): starts the connect timer; its handle is not kept.
connect(m) == [m EXCEPT !.connectTimer = TRUE]

\* new WebSocketMock(options): the constructor calls connect().
NoMock == connect(Mock(FALSE, FALSE, FALSE, 0, "none", FALSE, FALSE, FALSE))

\* The connect timer's callback.
connectTimeout(m) ==
    [m EXCEPT !.connectTimer = FALSE, !.isConnected = TRUE, !.last = "onConnect",
              !.connectedAfter = m.connectedAfter \/ m.disconnected]

\* sendMessage
sendMessage(m) ==
    IF ~m.isConnected THEN [m EXCEPT !.last = "onError"]
    ELSE [m EXCEPT !.replyTimers = @ + 1]

\* A reply timer's callback.
replyTimeout(m) ==
    [m EXCEPT !.replyTimers = @ - 1, !.last = "onMessage",
              !.repliedAfter = m.repliedAfter \/ m.disconnected]

\* The user messages sent, lower-cased, with the keywords each includes.
UserMessages == {"hello", "thanks", "xyz"}
includes(str, word) ==
    <<str, word>> \in {<<"hello", "hello">>, <<"thanks", "thank">>}

\* The replies of generateBotReply that quote the user's message.
voiceResponses(userMessage) ==
    << "I heard you say: \"" \o userMessage \o "\". How can I help you with that?",
       "Thanks for the voice message! You said: \"" \o userMessage
            \o "\". What would you like to know?",
       "Got your audio message: \"" \o userMessage \o "\". How can I assist you further?",
       "Voice message received: \"" \o userMessage \o "\". I'm here to help!" >>
defaultResponses(userMessage) ==
    << "That's interesting! You mentioned: \"" \o userMessage \o "\". Tell me more about that.",
       "I understand you're talking about: \"" \o userMessage
            \o "\". How can I help you with this?",
       "Thanks for sharing: \"" \o userMessage \o "\". What would you like to explore next?",
       "I see you said: \"" \o userMessage
            \o "\". Is there something specific you'd like to know?",
       "Regarding \"" \o userMessage \o "\" - I'm here to help! What questions do you have?" >>

\* generateBotReply, for a lower-case userMessage.
generateBotReply(userMessage, messageType, rnd) ==
    IF messageType = "voice"
    THEN At(voiceResponses(userMessage), (rnd * 4) \div 1000)
    ELSE IF includes(userMessage, "hello") \/ includes(userMessage, "hi")
    THEN "Hello! I'm Marin, your AI assistant. How can I help you today?"
    ELSE IF includes(userMessage, "help")
    THEN "I'm here to help! You can send me text messages or record voice messages. What do you need assistance with?"
    ELSE IF includes(userMessage, "test") \/ includes(userMessage, "testing")
    THEN "Great! The chat system is working perfectly. Both text and voice messages are functioning as expected."
    ELSE IF includes(userMessage, "thank")
    THEN "You're welcome! I'm glad I could help. Is there anything else you'd like to know?"
    ELSE IF includes(userMessage, "bye") \/ includes(userMessage, "goodbye")
    THEN "Goodbye! It was nice chatting with you. Feel free to come back anytime!"
    ELSE At(defaultResponses(userMessage), (rnd * 5) \div 1000)

\* simulateError
simulateError(m) ==
    IF m.isConnected
    THEN [m EXCEPT !.isConnected = FALSE, !.last = "onDisconnect",
                   !.reconnectTimeout = TRUE]
    ELSE m

\* The reconnect timer's callback.
reconnectTimeoutFired(m) == connect([m EXCEPT !.reconnectTimeout = FALSE])

\* disconnect: clears the reconnect timer only.
disconnect(m) ==
    [m EXCEPT !.isConnected = FALSE, !.reconnectTimeout = FALSE,
              !.last = "onDisconnect", !.disconnected = TRUE]

\* ----------------------------------------------------------- chat store

\* Messages added to the store, and auto-saves scheduled at once.
MaxMessages == 2
MaxPending == 2

\* A message with its Date, and as JSON.stringify writes it.
StoreMessage(id, content, t) == [id |-> id, content |-> content, timestamp |-> t]
stringify(messages) ==
    [k \in 1..Len(messages) |->
        [messages[k] EXCEPT !.timestamp = toISOString(messages[k].timestamp)]]
\* new Date(msg.timestamp)
fromISOString(str) == CHOOSE t \in Clock : toISOString(t) = str
parse(saved) ==
    [k \in 1..Len(saved) |->
        [saved[k] EXCEPT !.timestamp = fromISOString(saved[k].timestamp)]]

\* The store's messages, the 'chat-messages' entry of sessionStorage, the
\* scheduled auto-saves, the number of messages created, and whether the
\* page was loaded with an entry it has not yet loaded into the store.
NoItem == [present |-> FALSE, value |-> <<>>]
Item(v) == [present |-> TRUE, value |-> v]
NoStore ==
    [messages |-> <<>>, storage |-> NoItem, pending |-> 0, created |-> 0,
     unloaded |-> FALSE]

\* messages.filter((msg) => msg.id !== id)
withoutId(messages, id) ==
    LET F[k \in 0..Len(messages)] ==
            IF k = 0 THEN <<>>
            ELSE IF messages[k].id # id THEN Append(F[k - 1], messages[k]) ELSE F[k - 1]
    IN F[Len(messages)]

\* addMessage
addMessage(st, message) ==
    [st EXCEPT !.messages = Append(@, message), !.pending = @ + 1]
\* updateMessage
updateMessage(st, id, content) ==
    [st EXCEPT !.messages = [k \in 1..Len(@) |->
                                IF @[k].id = id THEN [@[k] EXCEPT !.content = content]
                                ELSE @[k]],
               !.pending = @ + 1]
\* deleteMessage
deleteMessage(st, id) ==
    [st EXCEPT !.messages = withoutId(@, id), !.pending = @ + 1]
\* clearMessages
clearMessages(st) == [st EXCEPT !.messages = <<>>, !.storage = NoItem]
\* saveMessagesToStorage: writes a list that is not empty.
saveMessagesToStorage(st) ==
    IF Len(st.messages) > 0 THEN [st EXCEPT !.storage = Item(stringify(st.messages))]
    ELSE st
\* loadMessagesFromStorage
loadMessagesFromStorage(st) ==
    IF st.storage.present
    THEN [st EXCEPT !.messages = parse(st.storage.value), !.unloaded = FALSE]
    ELSE [st EXCEPT !.unloaded = FALSE]

\* A page load evaluates the module again: create() makes a store with
\* messages: []; the timers of the old page are gone; sessionStorage stays.
create(st) ==
    [st EXCEPT !.messages = <<>>, !.pending = 0, !.unloaded = st.storage.present]

\* crypto.randomUUID(): an id no message of the store or of the entry has.
randomUUID(st) ==
    CHOOSE id \in 1..(Len(st.messages) + Len(st.storage.value) + 1) :
        /\ \A k \in 1..Len(st.messages) : st.messages[k].id # id
        /\ \A k \in 1..Len(st.storage.value) : st.storage.value[k].id # id

\* The onMessage callback the component gives the mock.
onMessage(st, botMessage) == addMessage(st, botMessage)

\* -------------------------------------------------------- retryApiCall

\* The largest maxRetries a call is made with: four attempts have three
\* delays, the first number at which doubling differs from adding.
MaxRetries == 4
BaseDelays == {0, 250, 1000}

\* How apiCall() settles: resolved with a value, rejected with an Error
\* (its message), or rejected with a value that is not an Error.
ApiOutcome(ok, value, isError) == [ok |-> ok, value |-> value, isError |-> isError]
ApiOutcomes ==
    { ApiOutcome(TRUE, "data", FALSE),
      ApiOutcome(FALSE, "E1", TRUE),
      ApiOutcome(FALSE, "boom", FALSE) }

\* error instanceof Error ? error : new Error('Unknown error')
errorOf(o) == IF o.isError THEN o.value ELSE "Unknown error"

\* Mutant: linear backoff.
backoffLinear(baseDelay, attempt) == baseDelay * attempt
\* baseDelay * Math.pow(2, attempt - 1)
backoff(baseDelay, attempt) == baseDelay * 2^(attempt - 1)

\* A call of retryApiCall: where it is, its arguments, the loop variable,
\* how apiCall settled so far, the delays waited, lastError and what the
\* call returned or threw.
NoCall ==
    [pc |-> "idle", maxRetries |-> 0, baseDelay |-> 0, attempt |-> 0,
     history |-> <<>>, waits |-> <<>>, lastError |-> Undefined, result |-> Undefined]

\* Entry: the loop's first test; with maxRetries < 1 the body never runs
\* and the final throw lastError throws undefined.
retryApiCall(maxRetries, baseDelay) ==
    [NoCall EXCEPT !.maxRetries = maxRetries, !.baseDelay = baseDelay, !.attempt = 1,
                   !.pc = IF 1 <= maxRetries THEN "calling" ELSE "thrown"]

\* Mutant: every failure waits and the loop's own test ends the call.
settledNoLastCheck(r, o) ==
    IF o.ok
    THEN [r EXCEPT !.history = Append(@, o), !.pc = "returned", !.result = o.value]
    ELSE [r EXCEPT !.history = Append(@, o), !.pc = "waiting", !.lastError = errorOf(o)]
\* await apiCall() has settled with o: return, throw on the last attempt,
\* or start the delay.
settled(r, o) ==
    IF o.ok
    THEN [r EXCEPT !.history = Append(@, o), !.pc = "returned", !.result = o.value]
    ELSE IF r.attempt = r.maxRetries
    THEN [r EXCEPT !.history = Append(@, o), !.pc = "thrown",
                   !.lastError = errorOf(o), !.result = errorOf(o)]
    ELSE [r EXCEPT !.history = Append(@, o), !.pc = "waiting", !.lastError = errorOf(o)]

\* The delay's timer has fired: attempt++ and the loop's test.
delayed(r) ==
    LET a == r.attempt + 1
    IN [r EXCEPT !.waits = Append(@, backoff(r.baseDelay, r.attempt)), !.attempt = a,
                 !.pc = IF a <= r.maxRetries THEN "calling" ELSE "thrown",
                 !.result = IF a <= r.maxRetries THEN r.result ELSE r.lastError]

\* ------------------------------------------------------------- actions

NoData == [username |-> Undefined, joinedAt |-> 0, userId |-> 0]

Init ==
    /\ status = [c \in Conns |-> "none"]
    /\ data = [c \in Conns |-> NoData]
    /\ subs = {}
    /\ out = [c \in Conns |-> <<>>]
    /\ log = <<>>
    /\ now = 0
    /\ wire = [c \in Conns |-> 0]
    /\ request = NoRequest
    /\ response = NoResponse
    /\ invoked = "none"
    /\ calls = [generateAIResponse |-> 0, transcribeAudio |-> 0, served |-> 0]
    /\ inflight = EmptyBag
    /\ retry = NoCall
    /\ mock = NoMock
    /\ store = NoStore

Used == {c \in Conns : status[c] # "none"}
\* The socket object a handler is called with.
WS(c) == [id |-> c, data |-> data[c]]

Apply(h) ==
    /\ subs' = h.subs
    /\ out' = h.out
    /\ log' = h.log

\* fetch on /chat: server.upgrade succeeds with the connection's data and
\* calls the open handler.  crypto.randomUUID() is a fresh identity: the
\* next unused connection.  Date.now() returns t0 for joinedAt, then t1
\* and t2 in the open handler.
Upgrade(req, rnd, t0, t1, t2) ==
    /\ Cardinality(Used) < MaxConns
    /\ Len(log) + 2 <= MaxLog
    /\ LET c == Cardinality(Used) + 1
           d == [username |-> extractUsername(req, rnd), joinedAt |-> t0,
                 userId |-> c]
           h == openHandler(Hub, [id |-> c, data |-> d], t1, t2)
       IN /\ status' = [status EXCEPT ![c] = "open"]
          /\ data' = [data EXCEPT ![c] = d]
          /\ Apply(h)
          /\ now' = h.clock
    /\ UNCHANGED wire
    /\ UNCHANGED apiVars
    /\ UNCHANGED feVars

\* A frame arrives on an open connection.
Message(c, raw, t) ==
    /\ status[c] = "open"
    /\ Len(log) < MaxLog
    /\ LET h == messageHandler(Hub, WS(c), raw, t)
       IN Apply(h) /\ now' = h.clock
    /\ UNCHANGED <<status, data, wire>>
    /\ UNCHANGED apiVars
    /\ UNCHANGED feVars

\* Mutant: the close handler also runs for a second close signal.
CloseOnEverySignal(c, t) ==
    /\ status[c] \in {"open", "closed"}
    /\ Len(log) < MaxLog
    /\ status' = [status EXCEPT ![c] = "closed"]
    /\ LET h == closeHandler(Hub, WS(c), t)
       IN Apply(h) /\ now' = h.clock
    /\ UNCHANGED <<data, wire>>
    /\ UNCHANGED apiVars
    /\ UNCHANGED feVars

\* An open connection closes (close frame, read error or idle timeout): the
\* runtime calls the close handler, once.
Close(c, t) ==
    /\ status[c] = "open"
    /\ Len(log) < MaxLog
    /\ status' = [status EXCEPT ![c] = "closed"]
    /\ LET h == closeHandler(Hub, WS(c), t)
       IN Apply(h) /\ now' = h.clock
    /\ UNCHANGED <<data, wire>>
    /\ UNCHANGED apiVars
    /\ UNCHANGED feVars

Next ==
    \/ \E req \in Requests, rnd \in RandomInts, t0, t1, t2 \in Clock :
          Upgrade(req, rnd, t0, t1, t2)
    \/ \E c \in Conns, raw \in RawFrames, t \in Clock : Message(c, raw, t)
    \/ \E c \in Conns, t \in Clock : Close(c, t)

Spec == Init /\ [][Next]_vars

\* The hub while the wall clock stands still: every Date.now() returns the
\* value of the read before it.  The hub claims that read no timestamp are
\* stated under this specification; Spec leaves every read free.
StillNext ==
    \/ \E req \in Requests, rnd \in RandomInts : Upgrade(req, rnd, now, now, now)
    \/ \E c \in Conns, raw \in RawFrames : Message(c, raw, now)
    \/ \E c \in Conns : Close(c, now)

SpecStill == Init /\ [][StillNext]_vars

\* The runtime writes the next buffered frame of c to the network.  A slow
\* connection is one for which this step does not happen.
Write(c) ==
    /\ status[c] = "open"
    /\ wire[c] < Len(out[c])
    /\ wire' = [wire EXCEPT ![c] = @ + 1]
    /\ UNCHANGED <<status, data, subs, out, log, now>>
    /\ UNCHANGED apiVars
    /\ UNCHANGED feVars

\* The hub together with the network writes, for one kind of chat frame
\* and a clock that stands still.
NetNext ==
    \/ \E req \in Requests, rnd \in RandomInts : Upgrade(req, rnd, now, now, now)
    \/ \E c \in Conns : Message(c, "{\"type\":\"chat\",\"content\":\"hi\"}", now)
    \/ \E c \in Conns : Close(c, now)
    \/ \E c \in Conns : Write(c)

SpecNet == Init /\ [][NetNext]_vars

\* The server's state after fetch has answered req with outcome o.
Served(req, o) ==
    [request |-> req, response |-> o.response, invoked |-> o.invoked,
     calls |-> [generateAIResponse |->
                    calls.generateAIResponse + IF o.invoked = "generateAIResponse" THEN 1 ELSE 0,
                transcribeAudio |->
                    calls.transcribeAudio + IF o.invoked = "transcribeAudio" THEN 1 ELSE 0,
                served |-> calls.served + 1]]

\* The requests fetch has taken and not yet answered.
Taken == calls.served + BagCardinality(inflight)

\* fetch: POST /api/chat, up to the await of req.json(): fetch returns the
\* pending promise of handleChatRequest and the event loop is free.
FetchChat(raw) ==
    LET req == Req("POST", "/api/chat", raw, NoFile, FALSE, FALSE)
    IN /\ Taken < MaxRequests
       /\ inflight' = inflight (+) SetToBag({req})
       /\ UNCHANGED <<request, response, invoked, calls>>
       /\ UNCHANGED hubVars
       /\ UNCHANGED feVars

\* handleChatRequest after the await of req.json(): the body is parsed
\* and the response settles.
PostChat(raw, rnd) ==
    LET req == Req("POST", "/api/chat", raw, NoFile, FALSE, FALSE)
        s == Served(req, fetch(req, rnd, now))
    IN /\ BagIn(req, inflight)
       /\ inflight' = inflight (-) SetToBag({req})
       /\ request' = s.request
       /\ response' = s.response
       /\ invoked' = s.invoked
       /\ calls' = s.calls
       /\ Apply(handlerEffect(Hub))
       /\ UNCHANGED <<status, data, now, wire>>
       /\ UNCHANGED feVars

\* fetch: POST /api/transcribe, up to the await of req.arrayBuffer().
FetchTranscribe(file, fails) ==
    LET req == Req("POST", "/api/transcribe", "", file, FALSE, fails)
    IN /\ Taken < MaxRequests
       /\ inflight' = inflight (+) SetToBag({req})
       /\ UNCHANGED <<request, response, invoked, calls>>
       /\ UNCHANGED hubVars
       /\ UNCHANGED feVars

\* handleTranscribeRequest after the await of req.arrayBuffer().
PostTranscribe(file, fails, rnd) ==
    LET req == Req("POST", "/api/transcribe", "", file, FALSE, fails)
        s == Served(req, fetch(req, rnd, now))
    IN /\ BagIn(req, inflight)
       /\ inflight' = inflight (-) SetToBag({req})
       /\ request' = s.request
       /\ response' = s.response
       /\ invoked' = s.invoked
       /\ calls' = s.calls
       /\ Apply(handlerEffect(Hub))
       /\ UNCHANGED <<status, data, now, wire>>
       /\ UNCHANGED feVars

\* fetch: OPTIONS on any path
Preflight(path) ==
    LET req == Req("OPTIONS", path, "", NoFile, FALSE, FALSE)
        s == Served(req, fetch(req, 0, now))
    IN /\ Taken < MaxRequests
       /\ request' = s.request
       /\ response' = s.response
       /\ invoked' = s.invoked
       /\ calls' = s.calls
       /\ UNCHANGED inflight
       /\ UNCHANGED hubVars
       /\ UNCHANGED feVars

\* fetch: /chat without a WebSocket handshake, so that server.upgrade
\* returns false.
UpgradeFailed(method) ==
    LET req == Req(method, "/chat", "", NoFile, FALSE, FALSE)
        s == Served(req, fetch(req, 0, now))
    IN /\ method # "OPTIONS"
       /\ Taken < MaxRequests
       /\ request' = s.request
       /\ response' = s.response
       /\ invoked' = s.invoked
       /\ calls' = s.calls
       /\ UNCHANGED inflight
       /\ UNCHANGED hubVars
       /\ UNCHANGED feVars

\* fetch: /health
Health(method) ==
    LET req == Req(method, "/health", "", NoFile, FALSE, FALSE)
        s == Served(req, fetch(req, 0, now))
    IN /\ method # "OPTIONS"
       /\ Taken < MaxRequests
       /\ request' = s.request
       /\ response' = s.response
       /\ invoked' = s.invoked
       /\ calls' = s.calls
       /\ UNCHANGED inflight
       /\ UNCHANGED hubVars
       /\ UNCHANGED feVars

\* fetch: every other method and path
NotFound(method, path) ==
    LET req == Req(method, path, "", NoFile, FALSE, FALSE)
        s == Served(req, fetch(req, 0, now))
    IN /\ fetch(req, 0, now).route = "notFound"
       /\ Taken < MaxRequests
       /\ request' = s.request
       /\ response' = s.response
       /\ invoked' = s.invoked
       /\ calls' = s.calls
       /\ UNCHANGED inflight
       /\ UNCHANGED hubVars
       /\ UNCHANGED feVars

\* The uploads sent: every file with the transcription backend up, and a
\* valid file with the backend down.
Uploads ==
    {<<file, FALSE>> : file \in AudioFiles} \cup {<<File(1, "audio/webm"), TRUE>>}

ApiNext ==
    \/ \E raw \in ChatBodies : FetchChat(raw)
    \/ \E raw \in ChatBodies, rnd \in Randoms : PostChat(raw, rnd)
    \/ \E u \in Uploads : FetchTranscribe(u[1], u[2])
    \/ \E u \in Uploads, rnd \in Randoms : PostTranscribe(u[1], u[2], rnd)
    \/ \E path \in Paths : Preflight(path)
    \/ \E method \in Methods : UpgradeFailed(method)
    \/ \E method \in Methods : Health(method)
    \/ \E method \in Methods, path \in Paths : NotFound(method, path)

SpecApi == Init /\ [][ApiNext]_vars

ServerBodies == {"not-json", "{\"messages\":[{\"text\":\"hello\",\"role\":\"user\"}]}"}

\* The hub and the request endpoints in one process, for one kind of
\* upgrade, a few requests of each kind and a clock that stands still.
ServerNext ==
    \/ \E rnd \in RandomInts :
          Upgrade([query |-> "Alice", header |-> Null], rnd, now, now, now)
    \/ \E c \in Conns : Message(c, "{\"type\":\"chat\",\"content\":\"hi\"}", now)
    \/ \E c \in Conns : Close(c, now)
    \/ \E raw \in ServerBodies : FetchChat(raw)
    \/ \E raw \in ServerBodies : PostChat(raw, 0)
    \/ FetchTranscribe(File(1, "audio/webm"), FALSE)
    \/ PostTranscribe(File(1, "audio/webm"), FALSE, 0)
    \/ Preflight("/chat")
    \/ UpgradeFailed("GET")
    \/ \E method \in {"GET", "POST"} : Health(method)
    \/ NotFound("GET", "/")

SpecServer == Init /\ [][ServerNext]_vars

\* ------------------------------------------------- retryApiCall actions

RetryCall(maxRetries, baseDelay) ==
    /\ retry.pc = "idle"
    /\ retry' = retryApiCall(maxRetries, baseDelay)
    /\ UNCHANGED <<hubVars, apiVars, mock, store>>

ApiCallSettles(o) ==
    /\ retry.pc = "calling"
    /\ retry' = settled(retry, o)
    /\ UNCHANGED <<hubVars, apiVars, mock, store>>

DelayElapses ==
    /\ retry.pc = "waiting"
    /\ retry' = delayed(retry)
    /\ UNCHANGED <<hubVars, apiVars, mock, store>>

RetryNext ==
    \/ \E maxRetries \in 0..MaxRetries, baseDelay \in BaseDelays :
          RetryCall(maxRetries, baseDelay)
    \/ \E o \in ApiOutcomes : ApiCallSettles(o)
    \/ DelayElapses

SpecRetry == Init /\ [][RetryNext]_vars

\* ------------------------------------------------ WebSocketMock actions

ConnectTimerFires ==
    /\ mock.connectTimer
    /\ mock' = connectTimeout(mock)
    /\ UNCHANGED <<hubVars, apiVars, retry, store>>

SendMessage ==
    /\ mock.replyTimers < MaxReplies
    /\ mock' = sendMessage(mock)
    /\ UNCHANGED <<hubVars, apiVars, retry, store>>

\* A reply timer's callback builds the bot message and hands it to
\* onMessage, which adds it to the store.
ReplyTimerFires(userMessage, messageType, rnd) ==
    /\ mock.replyTimers > 0
    /\ Len(store.messages) < MaxMessages
    /\ store.pending < MaxPending
    /\ mock' = replyTimeout(mock)
    /\ store' = onMessage(store,
                    StoreMessage(randomUUID(store),
                                 generateBotReply(userMessage, messageType, rnd), now))
    /\ UNCHANGED <<hubVars, apiVars, retry>>

SimulateError ==
    /\ mock' = simulateError(mock)
    /\ UNCHANGED <<hubVars, apiVars, retry, store>>

ReconnectTimerFires ==
    /\ mock.reconnectTimeout
    /\ mock' = reconnectTimeoutFired(mock)
    /\ UNCHANGED <<hubVars, apiVars, retry, store>>

\* The effect's cleanup calls disconnect().
Disconnect ==
    /\ mock' = disconnect(mock)
    /\ UNCHANGED <<hubVars, apiVars, retry, store>>

\* --------------------------------------------------- chat store actions

AddMessage(content) ==
    /\ store.created < MaxMessages
    /\ store.pending < MaxPending
    /\ store' = [addMessage(store, StoreMessage(store.created + 1, content, now))
                    EXCEPT !.created = @ + 1]
    /\ UNCHANGED <<hubVars, apiVars, retry, mock>>

UpdateMessage(id, content) ==
    /\ store.pending < MaxPending
    /\ store' = updateMessage(store, id, content)
    /\ UNCHANGED <<hubVars, apiVars, retry, mock>>

DeleteMessage(id) ==
    /\ store.pending < MaxPending
    /\ store' = deleteMessage(store, id)
    /\ UNCHANGED <<hubVars, apiVars, retry, mock>>

ClearMessages ==
    /\ store' = clearMessages(store)
    /\ UNCHANGED <<hubVars, apiVars, retry, mock>>

\* A scheduled auto-save runs.
AutoSave ==
    /\ store.pending > 0
    /\ store' = [saveMessagesToStorage(store) EXCEPT !.pending = @ - 1]
    /\ UNCHANGED <<hubVars, apiVars, retry, mock>>

\* The page is loaded again.
Reload ==
    /\ store' = create(store)
    /\ UNCHANGED <<hubVars, apiVars, retry, mock>>

\* The component mounts: its effect loads into the live store, whose
\* scheduled auto-saves stay.
Mount ==
    /\ store' = loadMessagesFromStorage(store)
    /\ UNCHANGED <<hubVars, apiVars, retry, mock>>

\* The mock with the component's callbacks; every message sent is the
\* text "hello".
MockNext ==
    \/ ConnectTimerFires
    \/ SendMessage
    \/ ReplyTimerFires("hello", "text", 0)
    \/ AutoSave
    \/ SimulateError
    \/ ReconnectTimerFires
    \/ Disconnect

SpecMock == Init /\ [][MockNext]_vars

StoreNext ==
    \/ \E content \in {"a"} : AddMessage(content)
    \/ \E id \in 1..MaxMessages : UpdateMessage(id, "b")
    \/ \E id \in 1..MaxMessages : DeleteMessage(id)
    \/ ClearMessages
    \/ AutoSave
    \/ Mount
    \/ Reload

SpecStore == Init /\ [][StoreNext]_vars

\* ------------------------------------------------------ history helpers

LogIdx == 1..Len(log)
\* How many times the frame of log entry i stands in c's outbound stream.
Count(c, i) == Cardinality({k \in 1..Len(out[c]) : out[c][k].id = i})
\* The position of that frame in c's outbound stream (0: not there).
Pos(c, i) ==
    IF \E k \in 1..Len(out[c]) : out[c][k].id = i
    THEN CHOOSE k \in 1..Len(out[c]) : out[c][k].id = i
    ELSE 0
\* The subscribers of "main-chat" when entry i was published, rebuilt from
\* the handlers that ran: c's open handler has subscribed it (its join is
\* entry i or earlier) and c's close handler has not yet unsubscribed it.
SubscribedAt(i) ==
    {c \in Conns :
        /\ \E j \in 1..i : log[j].op = "open" /\ log[j].by = c
        /\ ~ \E j \in 1..i : log[j].op = "close" /\ log[j].by = c}
Publishes == {i \in LogIdx : log[i].kind = "publish"}
JoinsOf(c) == {i \in Publishes : log[i].by = c /\ log[i].frame.type = "join"}
LeavesOf(c) == {i \in Publishes : log[i].by = c /\ log[i].frame.type = "leave"}
WelcomesOf(c) == {i \in LogIdx : log[i].by = c /\ log[i].op = "open" /\ log[i].kind = "send"}

\* ------------------------------------------------------------- claims

\* C1 (fan-out completeness): every event published to "main-chat" (join,
\* chat or leave) stands exactly once, unchanged, in the outbound stream of
\* every connection subscribed at publish time, and each stream holds its
\* frames in the order the publishes were made.  (No stream is ever full:
\* the source sets no limit on it.)
FanOutCompleteness ==
    /\ \A i \in Publishes : \A c \in SubscribedAt(i) :
          /\ Count(c, i) = 1
          /\ out[c][Pos(c, i)] = log[i].frame
    /\ \A c \in Conns : \A k1, k2 \in 1..Len(out[c]) :
          k1 < k2 => out[c][k1].id < out[c][k2].id

\* Three kinds of event (join, chat, leave) have been fanned out to two
\* subscribers.
FanOutWitness ==
    \E i, j, l \in Publishes :
        /\ log[i].frame.type = "join" /\ log[j].frame.type = "chat"
        /\ log[l].frame.type = "leave"
        /\ i < j /\ j < l
        /\ Cardinality(SubscribedAt(j)) >= 2
        /\ \E c \in Conns : Count(c, i) = 1 /\ Count(c, j) = 1 /\ Count(c, l) = 1

\* C2 (chat round trip): when an open connection sends
\* {"type":"chat","content":c}, the sender and every other connection open
\* at that time each receive exactly one chat frame with content c under
\* the sender's name, and a client that never connected receives nothing.
ChatRoundTrip ==
    /\ \A i \in LogIdx :
          LET e == log[i]
              p == JSONParse(e.raw)
          IN (e.op = "message" /\ p.ok /\ p.kind = "object" /\ p.type = "chat") =>
                \A d \in {e.by} \cup SubscribedAt(i) :
                    /\ Count(d, i) = 1
                    /\ out[d][Pos(d, i)].type = "chat"
                    /\ out[d][Pos(d, i)].content = p.content
                    /\ out[d][Pos(d, i)].username = data[e.by].username
    /\ \A c \in Conns : status[c] = "none" => out[c] = <<>>

\* Alice and User7 are open, Alice has sent "hi", both hold the chat frame and
\* a third client has never connected.
ChatRoundTripWitness ==
    \E i \in LogIdx, a, b, c \in Conns :
        /\ a # b /\ status[a] = "open" /\ status[b] = "open" /\ status[c] = "none"
        /\ log[i].op = "message" /\ log[i].by = a
        /\ log[i].raw = "{\"type\":\"chat\",\"content\":\"hi\"}"
        /\ data[a].username = "Alice" /\ data[b].username = "User7"
        /\ Count(a, i) = 1 /\ Count(b, i) = 1
        /\ out[b][Pos(b, i)].content = "hi" /\ out[b][Pos(b, i)].username = "Alice"

\* Two parsed frames that differ at most in their username field.
SameButUsername(r1, r2) ==
    /\ JSONParse(r1).ok /\ JSONParse(r2).ok
    /\ [JSONParse(r1) EXCEPT !.username = Undefined]
         = [JSONParse(r2) EXCEPT !.username = Undefined]

SpoofPairs ==
    {pr \in RawFrames \X RawFrames : pr[1] # pr[2] /\ SameButUsername(pr[1], pr[2])}

\* C3 (sender identity is authoritative): every broadcast chat event carries
\* the name recorded for the sending connection at upgrade, whatever the
\* frame says; two frames that differ only in the client-supplied username
\* lead to the same outbound streams.
SenderIdentityAuthoritative ==
    /\ \A i \in Publishes :
          log[i].op = "message" =>
              /\ log[i].frame.type = "chat"
              /\ log[i].frame.username = data[log[i].by].username
    /\ \A c \in Conns : \A pr \in SpoofPairs :
          status[c] = "open" =>
              messageHandler(Hub, WS(c), pr[1], now).out
                  = messageHandler(Hub, WS(c), pr[2], now).out

\* Alice has sent a chat frame that names Mallory as its author, and it was
\* broadcast under Alice's name.
SenderIdentityWitness ==
    \E i \in Publishes :
        /\ log[i].op = "message"
        /\ JSONParse(log[i].raw).username = "Mallory"
        /\ data[log[i].by].username = "Alice"
        /\ log[i].frame.username = "Alice"
        /\ \E d \in Conns : d # log[i].by /\ Count(d, i) = 1

\* C4 (membership snapshot): a connection holds a broadcast frame only if it
\* was subscribed when that frame was published, and a private frame only
\* if it is its own; a closed connection holds no frame published at or
\* after its close handler ran.
MembershipSnapshot ==
    /\ \A c \in Conns : \A k \in 1..Len(out[c]) :
          LET i == out[c][k].id
          IN /\ i \in LogIdx
             /\ IF log[i].kind = "publish" THEN c \in SubscribedAt(i)
                                            ELSE log[i].by = c
    /\ \A c \in Conns : status[c] = "closed" =>
          /\ LeavesOf(c) # {}
          /\ \A l \in LeavesOf(c) : \A k \in 1..Len(out[c]) : out[c][k].id < l

\* A connection has closed, and an event published after its close reached
\* another connection and not the closed one.
MembershipSnapshotWitness ==
    \E c, d \in Conns : \E l \in LeavesOf(c) : \E j \in Publishes :
        /\ status[c] = "closed" /\ c # d /\ Len(out[c]) >= 2
        /\ j > l /\ Count(d, j) = 1 /\ Count(c, j) = 0 /\ Count(c, l) = 0

\* C5 (join/leave pairing): every accepted connection has published exactly
\* one join; it has published exactly one leave once it is closed and none
\* before; both carry the name recorded at upgrade, and the leave follows
\* the join.
JoinLeavePairing ==
    \A c \in Conns :
        /\ Cardinality(JoinsOf(c)) = IF status[c] = "none" THEN 0 ELSE 1
        /\ Cardinality(LeavesOf(c)) = IF status[c] = "closed" THEN 1 ELSE 0
        /\ \A i \in JoinsOf(c) \cup LeavesOf(c) :
              log[i].frame.username = data[c].username
        /\ \A l \in LeavesOf(c) : \E j \in JoinsOf(c) : j < l

\* Two connections of the same name: one has joined and left, the other has
\* joined and is still open.
JoinLeavePairingWitness ==
    \E c, d \in Conns :
        /\ c # d /\ status[c] = "closed" /\ status[d] = "open"
        /\ data[c].username = data[d].username
        /\ \E j \in JoinsOf(c), l \in LeavesOf(c) : j < l
        /\ JoinsOf(d) # {} /\ LeavesOf(d) = {}

\* C6 as stated (welcome first): in a new connection's outbound stream the
\* welcome frame stands before the connection's own join frame.
WelcomeBeforeJoin ==
    \A c \in Conns : \A j \in JoinsOf(c), w \in WelcomesOf(c) :
        /\ Pos(c, w) > 0 /\ Pos(c, j) > 0
        /\ Pos(c, w) < Pos(c, j)

\* C6 amended (connect ordering): on connect the server first broadcasts the
\* join frame and only then sends the private welcome frame (type chat,
\* username "System"), so in the new connection's outbound stream its own
\* join frame stands before the welcome frame.
JoinBeforeWelcome ==
    \A c \in Conns : status[c] # "none" =>
        /\ WelcomesOf(c) # {}
        /\ \A j \in JoinsOf(c), w \in WelcomesOf(c) :
              /\ log[w].frame.type = "chat" /\ log[w].frame.username = System
              /\ Pos(c, w) > 0 /\ Pos(c, j) > 0
              /\ Pos(c, j) < Pos(c, w)

\* A connection has opened beside another one and holds its join frame and
\* its welcome frame.
ConnectOrderWitness ==
    \E c, d \in Conns : \E j \in JoinsOf(c), w \in WelcomesOf(c) :
        /\ c # d /\ status[d] = "open" /\ status[c] = "open"
        /\ out[c][1].id = j /\ out[c][2].id = w
        /\ Count(d, j) = 1

\* C7 (own join receipt): a new connection is subscribed before its join is
\* published, so it holds its own join frame exactly once; its welcome
\* frame is sent once, to it alone.
OwnJoinReceipt ==
    \A c \in Conns : status[c] # "none" =>
        /\ Cardinality(JoinsOf(c)) = 1
        /\ Cardinality(WelcomesOf(c)) = 1
        /\ \A j \in JoinsOf(c) : c \in log[j].to /\ Count(c, j) = 1
        /\ \A w \in WelcomesOf(c) :
              /\ Count(c, w) = 1
              /\ \A d \in Conns \ {c} : Count(d, w) = 0

\* A second connection has opened: the first holds the newcomer's join and
\* not its welcome, the newcomer holds both.
OwnJoinWitness ==
    \E c, d \in Conns : \E j \in JoinsOf(d), w \in WelcomesOf(d) :
        /\ c # d /\ status[c] = "open"
        /\ Count(c, j) = 1 /\ Count(c, w) = 0
        /\ Count(d, j) = 1 /\ Count(d, w) = 1

\* C8 (leave broadcast): the close handler of c unsubscribes c and then
\* hands one leave frame with c's name to every connection still
\* subscribed, and none to c.
LeaveBroadcast ==
    /\ \A c \in Conns : status[c] = "open" =>
          LET h == closeHandler(Hub, WS(c), now)
          IN /\ h.subs = subs \ {c}
             /\ h.out[c] = out[c]
             /\ \A d \in Conns \ {c} :
                   IF d \in subs
                   THEN /\ Len(h.out[d]) = Len(out[d]) + 1
                        /\ SubSeq(h.out[d], 1, Len(out[d])) = out[d]
                        /\ h.out[d][Len(h.out[d])].type = "leave"
                        /\ h.out[d][Len(h.out[d])].username = data[c].username
                   ELSE h.out[d] = out[d]
    /\ \A c \in Conns : status[c] = "closed" =>
          /\ Cardinality(LeavesOf(c)) = 1
          /\ \A l \in LeavesOf(c) :
                /\ log[l].frame.username = data[c].username
                /\ c \notin log[l].to /\ Count(c, l) = 0
                /\ log[l].to = SubscribedAt(l)
                /\ \A d \in SubscribedAt(l) : Count(d, l) = 1

\* Alice has closed while another connection was open: it holds her leave
\* frame once, and she holds none.
LeaveBroadcastWitness ==
    \E c, d \in Conns : \E l \in LeavesOf(c) :
        /\ c # d /\ status[c] = "closed" /\ status[d] = "open"
        /\ data[c].username = "Alice"
        /\ Count(d, l) = 1 /\ Count(c, l) = 0
        /\ out[d][Pos(d, l)].type = "leave"
        /\ out[d][Pos(d, l)].username = "Alice"

\* The leave frames of c in the stream of d.
LeaveFramesIn(d, c) ==
    {k \in 1..Len(out[d]) : out[d][k].id \in LeavesOf(c)}

MalformedFrame ==
    /\ \A c \in Conns : \A raw \in RawFrames :
          (status[c] = "open" /\ ~JSONParse(raw).ok) =>
              LET h == messageHandler(Hub, WS(c), raw, now)
                  n == Len(out[c])
              IN /\ h.subs = subs /\ c \in h.subs
                 /\ \A d \in Conns \ {c} : h.out[d] = out[d]
                 /\ Len(h.out[c]) = n + 1
                 /\ SubSeq(h.out[c], 1, n) = out[c]
                 /\ h.out[c][n + 1].type = "chat"
                 /\ h.out[c][n + 1].username = System
                 /\ h.out[c][n + 1].content = "Error: Invalid message format"
                 /\ Len(h.log) = Len(log) + 1
                 /\ h.log[Len(h.log)].kind = "send"
    /\ \A i \in LogIdx :
          (log[i].op = "message" /\ ~JSONParse(log[i].raw).ok) =>
              /\ log[i].kind = "send" /\ log[i].to = {log[i].by}
              /\ log[i].frame.username = System
              /\ \A d \in Conns \ {log[i].by} : Count(d, i) = 0
              /\ \A j \in LogIdx :
                    (j > i /\ log[j].op = "message" /\ log[j].by = log[i].by
                       /\ TryOk(log[j].raw)) =>
                        /\ log[j].kind = "publish"
                        /\ log[j].by \in log[j].to
                        /\ log[j].to = SubscribedAt(j)
    /\ \A c \in Conns : status[c] = "open" => c \in subs

\* A connection has sent "not-json" and then a valid chat frame: it holds
\* the error frame, another open connection holds the chat frame only.
MalformedFrameWitness ==
    \E i, j \in LogIdx, c, d \in Conns :
        /\ i < j /\ c # d /\ status[c] = "open" /\ status[d] = "open"
        /\ log[i].op = "message" /\ log[i].by = c /\ log[i].raw = "not-json"
        /\ log[j].op = "message" /\ log[j].by = c /\ TryOk(log[j].raw)
        /\ Count(c, i) = 1 /\ Count(d, i) = 0
        /\ Count(c, j) = 1 /\ Count(d, j) = 1

\* C11 as stated (only chat frames broadcast): a frame that parses as a JSON
\* object whose type is not "chat" is accepted without an error frame and
\* publishes nothing; a chat event is published only for a frame of type
\* "chat".
OnlyChatFramesBroadcast ==
    \A i \in LogIdx :
        LET p == JSONParse(log[i].raw)
        IN (log[i].op = "message" /\ p.kind = "object" /\ p.type # "chat") =>
              /\ log[i].kind # "publish"
              /\ log[i].frame.username # System

\* C14 (per-connection FIFO): when A is published before B, every
\* connection that holds both holds A before B; two chat frames one client
\* sent in order stand in that order in every stream.
PerConnectionFIFO ==
    \A c \in Conns : \A i, j \in Publishes :
        (i < j /\ Count(c, i) > 0 /\ Count(c, j) > 0) =>
            \A k1, k2 \in 1..Len(out[c]) :
                (out[c][k1].id = i /\ out[c][k2].id = j) => k1 < k2

\* One client has sent two chat frames in order and another connection
\* holds both, the first before the second.
PerConnectionFIFOWitness ==
    \E c, d \in Conns : \E i, j \in Publishes :
        /\ c # d /\ i < j
        /\ log[i].op = "message" /\ log[i].by = c
        /\ log[j].op = "message" /\ log[j].by = c
        /\ Pos(d, i) > 0 /\ Pos(d, i) < Pos(d, j)
        /\ Pos(c, i) > 0 /\ Pos(c, i) < Pos(c, j)

\* C16 (timestamps): every published event carries the value of Date.now()
\* at its publish, never a timestamp the client wrote; every recipient holds
\* the same timestamp; timestamps of successive publishes do not decrease;
\* a chat event is not older than its sender's joinedAt.
Timestamps ==
    /\ \A i \in Publishes :
          /\ log[i].frame.timestamp = log[i].at
          /\ log[i].frame.timestamp \in Clock
          /\ \A c \in Conns : \A k \in 1..Len(out[c]) :
                out[c][k].id = i => out[c][k].timestamp = log[i].frame.timestamp
          /\ log[i].op = "message" =>
                log[i].frame.timestamp >= data[log[i].by].joinedAt
    /\ \A i, j \in Publishes :
          i < j => log[i].frame.timestamp <= log[j].frame.timestamp

\* The part of C16 that does not order two reads of the wall clock: the
\* timestamp of a published event is the Date.now() of its handler, never
\* the client's, and is the same in every recipient's stream.
ServerTimestamps ==
    \A i \in Publishes :
        /\ log[i].frame.timestamp = log[i].at
        /\ log[i].frame.timestamp \in Clock
        /\ \A c \in Conns : \A k \in 1..Len(out[c]) :
              out[c][k].id = i => out[c][k].timestamp = log[i].frame.timestamp

\* The log entries a step adds that were made by c's handlers.
NewEntriesBy(c) == {i \in (Len(log) + 1)..Len(log') : log'[i].by = c}

\* C15 (session state machine): a connection only moves forward, from not
\* yet accepted (connecting) to open and from open to closed (closing ends
\* in the close handler); becoming open subscribes it; becoming closed
\* unsubscribes it and publishes its leave; a closed connection stays
\* closed, is not subscribed again, publishes nothing and receives nothing.
SessionStateMachine ==
    [][\A c \in Conns :
          /\ status'[c] # status[c] =>
                <<status[c], status'[c]>> \in {<<"none", "open">>, <<"open", "closed">>}
          /\ (status[c] = "none" /\ status'[c] = "open") => c \in subs'
          /\ (status[c] = "open" /\ status'[c] = "closed") =>
                /\ c \notin subs'
                /\ \E i \in NewEntriesBy(c) :
                      log'[i].kind = "publish" /\ log'[i].frame.type = "leave"
          /\ status[c] = "closed" =>
                /\ status'[c] = "closed"
                /\ c \notin subs'
                /\ out'[c] = out[c]
                /\ NewEntriesBy(c) = {}]_vars

\* A connection has gone from open to closed and another one has published
\* a chat event afterwards.
SessionStateMachineWitness ==
    \E c, d \in Conns : \E l \in LeavesOf(c) : \E j \in Publishes :
        /\ status[c] = "closed" /\ status[d] = "open" /\ c \notin subs
        /\ j > l /\ log[j].by = d /\ log[j].op = "message"
        /\ Count(c, j) = 0 /\ Len(out[c]) >= 2

\* C12 (isolation): while a subscriber has completed none of its network
\* writes, every event published still stands once in the stream of each
\* other subscriber of that time, and every handler (open, message, close)
\* can still run to completion.
Isolation ==
    /\ \A i \in Publishes : \A c \in SubscribedAt(i) :
          (wire[c] = 0 /\ Len(out[c]) > 0) =>
              \A d \in SubscribedAt(i) \ {c} : Count(d, i) = 1
    /\ \A c \in Conns :
          (wire[c] = 0 /\ Len(out[c]) > 0 /\ Len(log) + 2 <= MaxLog) =>
              /\ \A d \in Conns : status[d] = "open" =>
                    /\ ENABLED Message(d, "{\"type\":\"chat\",\"content\":\"hi\"}", now)
                    /\ ENABLED Close(d, now)
              /\ Cardinality(Used) < MaxConns =>
                    ENABLED (\E req \in Requests, rnd \in RandomInts :
                                Upgrade(req, rnd, now, now, now))

\* Of two subscribers the first has written nothing, and the second has
\* written everything, a chat event of each of the two included; the first
\* has then closed.
IsolationWitness ==
    \E c, d \in Conns : \E i, j \in Publishes :
        /\ c < d /\ {c, d} \subseteq SubscribedAt(i) /\ i < j
        /\ log[i].op = "message" /\ log[i].by = d
        /\ log[j].op = "message" /\ log[j].by = c
        /\ wire[c] = 0 /\ Len(out[c]) >= 4
        /\ Count(d, i) = 1 /\ Count(d, j) = 1 /\ wire[d] = Len(out[d])

\* ------------------------------------------------ request endpoint claims

ChatRequest == request.method = "POST" /\ request.path = "/api/chat"
TranscribeRequest == request.method = "POST" /\ request.path = "/api/transcribe"
\* The body is a JSON object whose messages field is an array of n or more.
MessagesArrayOf(raw, n) ==
    /\ ParseChatBody(raw).ok
    /\ ParseChatBody(raw).kind = "object"
    /\ IsArray(ParseChatBody(raw).messages)
    /\ ParseChatBody(raw).messages.len >= n
Keys(body) == {p[1] : p \in body}
Completion(resp) ==
    /\ resp.status = 200
    /\ Keys(resp.body) = {"role", "content"}
    /\ Get(resp.body, "role") = "assistant"
    /\ Get(resp.body, "content") \notin {Undefined, ""}

\* C17: POST /api/chat with a non-empty messages array is answered 200
\* with {role: "assistant", content}, content a non-empty string, for every
\* such body and every choice of the mock generator.
ChatCompletion ==
    /\ (ChatRequest /\ MessagesArrayOf(request.body, 1)) =>
            (Completion(response) /\ invoked = "generateAIResponse")
    /\ \A raw \in ChatBodies, rnd \in Randoms :
            MessagesArrayOf(raw, 1) => Completion(handleChatRequest(raw, rnd).response)
ChatCompletionWitness ==
    /\ ChatRequest
    /\ ParseChatBody(request.body).messages = Value("array", 2)
    /\ response.status = 200
    /\ Get(response.body, "content") = AIResponses[5]

\* C18: POST /api/chat whose messages list is empty, missing or not an
\* array is answered 400 with {error}, and generateAIResponse is not invoked.
ChatValidation ==
    (/\ ChatRequest
     /\ ParseChatBody(request.body).kind = "object"
     /\ ~MessagesArrayOf(request.body, 1)) =>
        /\ response.status = 400
        /\ Get(response.body, "error") # Undefined
        /\ invoked = "none"

\* C19: POST /api/chat whose body is not parseable JSON is answered with a
\* 4xx status and {error}, not with a server-error status.
MalformedChatBody ==
    (ChatRequest /\ ~ParseChatBody(request.body).ok) =>
        /\ response.status \in 400..499
        /\ Get(response.body, "error") # Undefined

\* C20: POST /api/transcribe with a payload above 5MB or a MIME type
\* outside the allowed ones never invokes transcribeAudio.
Rejectable(file) == file.present /\ (file.size > maxSize \/ file.type \notin allowedTypes)
TranscribeValidationBoundary ==
    /\ (TranscribeRequest /\ Rejectable(request.file)) => invoked # "transcribeAudio"
    /\ \A file \in AudioFiles, fails \in BOOLEAN, rnd \in Randoms :
            Rejectable(file) =>
                handleTranscribeRequest(file, fails, rnd).invoked # "transcribeAudio"
TranscribeValidationBoundaryWitness ==
    /\ TranscribeRequest
    /\ request.file = File(maxSize + 1, "audio/ogg")
    /\ response.status = 500
    /\ invoked = "none"
    /\ calls.served = 2

\* A request has been served with a valid audio file.
ValidAudio == TranscribeRequest /\ request.file.present /\ ~Rejectable(request.file)
Failure(resp, st, msg) ==
    /\ resp.status = st
    /\ Get(resp.body, "success") = "false"
    /\ Get(resp.body, "error") = msg

\* C21: POST /api/transcribe with a payload above the byte limit, an
\* unsupported format or no audio file is answered 400 with success:false
\* and an error message.
TranscribeRejection ==
    (TranscribeRequest /\ (~request.file.present \/ Rejectable(request.file))) =>
        /\ response.status = 400
        /\ Get(response.body, "success") = "false"
        /\ Get(response.body, "error") # Undefined

\* C22: POST /api/transcribe with a valid audio payload and a backend that
\* succeeds is answered 200 with {transcription, success: true}.
TranscribeSuccess ==
    (ValidAudio /\ ~request.fails) =>
        /\ response.status = 200
        /\ Get(response.body, "transcription") # Undefined
        /\ Get(response.body, "success") = "true"

Structured(resp) ==
    /\ resp.text = Undefined
    /\ <<"Content-Type", "application/json">> \in resp.headers
    /\ resp.status \in {200, 400, 500, 503}
    /\ resp.body # {}
    /\ resp.status # 200 => Get(resp.body, "error") # Undefined
Failed == (ChatRequest \/ TranscribeRequest) /\ response.status # 200
HandlersReturn ==
    /\ \A raw \in ChatBodies, rnd \in Randoms :
            Structured(handleChatRequest(raw, rnd).response)
    /\ \A file \in AudioFiles, fails \in BOOLEAN, rnd \in Randoms :
            Structured(handleTranscribeRequest(file, fails, rnd).response)
    /\ (ChatRequest \/ TranscribeRequest) => Structured(response)
StillServing ==
    Failed =>
        /\ Taken < MaxRequests =>
                /\ ENABLED Health("GET")
                /\ ENABLED FetchChat("not-json")
        /\ \A raw \in ChatBodies :
                BagIn(Req("POST", "/api/chat", raw, NoFile, FALSE, FALSE), inflight) =>
                    ENABLED PostChat(raw, 0)
        /\ \A c \in Conns :
                (status[c] = "open" /\ Len(log) < MaxLog) =>
                    ENABLED Message(c, "{\"type\":\"chat\",\"content\":\"hi\"}", now)
FailureLeavesHub ==
    (calls'.served # calls.served /\ response'.status >= 400) =>
        UNCHANGED <<status, data, subs, out, log>>

\* C24: every call of handleChatRequest and handleTranscribeRequest returns
\* a Response with a structured JSON body (an error field on failure); after
\* a failed request the server still serves requests and frames, and the
\* connections and their streams are as they were.
HandlerErrorBoundary ==
    /\ [](HandlersReturn /\ StillServing)
    /\ [][FailureLeavesHub]_vars
HandlerErrorBoundaryWitness ==
    /\ Failed
    /\ request.body = "not-json"
    /\ response.status = 500
    /\ calls.served = 1
    /\ BagCardinality(inflight) = 1
    /\ subs = {1, 2}
    /\ Len(out[1]) = 3

\* C25: every response the server produces, on every dispatch path, carries
\* the four Access-Control headers of getCORSHeaders.
CORSOnAllResponses ==
    calls.served > 0 => getCORSHeaders \subseteq response.headers

\* The answer resp of the branch route to the request req.
Answers(route, req, resp) ==
    CASE route = "preflight" -> resp = handleOptionsRequest
      [] route = "upgrade" ->
            IF req.handshake THEN resp = NoResponse
            ELSE resp.status = 400 /\ resp.text = "WebSocket upgrade failed"
      [] route = "chat" ->
            \E rnd \in Randoms : resp = handleChatRequest(req.body, rnd).response
      [] route = "transcribe" ->
            \E rnd \in Randoms :
                resp = handleTranscribeRequest(req.file, req.fails, rnd).response
      [] route = "health" ->
            /\ resp.status = 200
            /\ Get(resp.body, "status") = "healthy"
            /\ \E t \in Clock : Get(resp.body, "timestamp") = toISOString(t)
      [] OTHER -> resp.status = 404 /\ resp.text = "Not Found"

\* The routing table with /health for GET only.
GetHealthRoute(method, path) ==
    IF method = "OPTIONS" THEN "preflight"
    ELSE IF path = "/chat" THEN "upgrade"
    ELSE IF method = "POST" /\ path = "/api/chat" THEN "chat"
    ELSE IF method = "POST" /\ path = "/api/transcribe" THEN "transcribe"
    ELSE IF method = "GET" /\ path = "/health" THEN "health"
    ELSE "notFound"
\* The routing table with /health for every method but OPTIONS.
AnyHealthRoute(method, path) ==
    IF method = "OPTIONS" THEN "preflight"
    ELSE IF path = "/chat" THEN "upgrade"
    ELSE IF method = "POST" /\ path = "/api/chat" THEN "chat"
    ELSE IF method = "POST" /\ path = "/api/transcribe" THEN "transcribe"
    ELSE IF path = "/health" THEN "health"
    ELSE "notFound"

HttpRequests ==
    {Req(m, p, b, f, h, fl) :
        m \in Methods, p \in Paths, b \in {"", "not-json"},
        f \in {NoFile, File(1, "audio/webm")}, h \in BOOLEAN, fl \in BOOLEAN}

\* C26, as claimed: the answer is the one of the branch chosen by method and
\* path alone, with GET /health the only health check and 404 for the rest.
PureRouterGetHealth ==
    calls.served > 0 =>
        Answers(GetHealthRoute(request.method, request.path), request, response)

\* C26, amended: the same, with /health answering every method but OPTIONS.
PureRouter ==
    /\ calls.served > 0 =>
            Answers(AnyHealthRoute(request.method, request.path), request, response)
    /\ \A req \in HttpRequests :
            /\ fetch(req, 0, now).route = AnyHealthRoute(req.method, req.path)
            /\ Answers(AnyHealthRoute(req.method, req.path), req,
                       fetch(req, 0, now).response)
PureRouterWitness ==
    /\ request.method = "POST"
    /\ request.path = "/health"
    /\ response.status = 200
    /\ calls.served = 2
    /\ subs = {2}

\* C27: a step that serves a request changes neither the subscribers of
\* the topic nor any connection's outbound stream, and publishes and sends
\* nothing, whatever the hub has done before and does after.
HandlersLeaveHub ==
    [][(calls'.served # calls.served \/ inflight' # inflight) =>
            UNCHANGED <<status, data, subs, out, log>>]_vars
HandlersLeaveHubWitness ==
    /\ ChatRequest
    /\ invoked = "generateAIResponse"
    /\ calls.served = 2
    /\ BagCardinality(inflight) = 1
    /\ subs = {1, 2}
    /\ Len(log) = 5

\* C28: with maxRetries >= 1, retryApiCall calls apiCall at most maxRetries
\* times, returns the first success without a further attempt, waits
\* baseDelay * 2^(k-1) after the k-th failed attempt before the next one,
\* and after maxRetries failures throws the last attempt's error
\* (lastError) without waiting after it.
RetryContract ==
    LET n == Len(retry.history)
    IN retry.maxRetries >= 1 =>
        /\ n <= retry.maxRetries
        /\ \A k \in 1..(n - 1) : ~retry.history[k].ok
        /\ \A k \in 1..Len(retry.waits) : retry.waits[k] = retry.baseDelay * 2^(k - 1)
        /\ Len(retry.waits) = retry.attempt - 1
        /\ retry.pc = "calling" => n = retry.attempt - 1
        /\ retry.pc \in {"waiting", "returned", "thrown"} => n = retry.attempt
        /\ retry.pc = "waiting" => n < retry.maxRetries /\ ~retry.history[n].ok
        /\ retry.pc = "returned" =>
                retry.history[n].ok /\ retry.result = retry.history[n].value
        /\ retry.pc = "thrown" =>
                /\ n = retry.maxRetries
                /\ ~retry.history[n].ok
                /\ retry.result = errorOf(retry.history[n])
RetryContractWitness ==
    /\ retry.pc = "thrown"
    /\ retry.maxRetries = 4
    /\ retry.waits = <<250, 500, 1000>>
    /\ retry.result = "E1"
    /\ ~retry.history[2].isError

\* C29: after disconnect() the mock is never connected again, onConnect is
\* not invoked again and no bot reply reaches onMessage, whenever the
\* pending connect, reconnect and reply timers fire.
DisconnectFinal ==
    mock.disconnected =>
        /\ ~mock.isConnected
        /\ ~mock.connectedAfter
        /\ ~mock.repliedAfter

\* C30: once every scheduled auto-save has run, the 'chat-messages' entry
\* holds exactly the store's messages (absent when there are none), so a
\* reload restores the same list.
StorePersistence ==
    (store.pending = 0 /\ ~store.unloaded) =>
        /\ store.storage = IF store.messages = <<>> THEN NoItem
                           ELSE Item(stringify(store.messages))
        /\ loadMessagesFromStorage(create(store)).messages = store.messages

====
